---- MODULE Spec2Model ----
(***************************************************************************)
(* The OpenSK flash syscall driver of tock-on-titan                        *)
(* (h1_syscalls/src/opensk_syscall.rs): the pending operation marker       *)
(* `app`, the per-process grant records, the static WRITE_BUFFER and the   *)
(* Driver / flash Client entry points, as a state machine.                 *)
(*                                                                         *)
(* The kernel is single threaded: every entry point runs to completion,    *)
(* so each entry point is one atomic action.                               *)
(***************************************************************************)
EXTENDS Integers, Sequences, FiniteSets, TLC

----------------------------------------------------------------------------
(* Program constants (opensk_syscall.rs:24-29).                            *)

WORD_SIZE == 4
PAGE_SIZE == 2048
MAX_WRITE_COUNT == 2
MAX_ERASE_COUNT == 10000
MAX_WRITE_LENGTH == 32

----------------------------------------------------------------------------
(* Bounds of the model.                                                    *)

\* Number of client processes.
NumApps == 2
\* Number of distinct upcall function pointers a process may subscribe.
NumCallbacks == 1
\* Number of processes that share buffers of every length in SpecCalls.
NumWriters == 1

Apps == 1 .. NumApps
Writers == 1 .. NumWriters

----------------------------------------------------------------------------
(* Option<T>: None is the empty sequence, Some(x) the one-element one.     *)

None == << >>
Some(x) == << x >>

----------------------------------------------------------------------------
(* Inputs.                                                                 *)

\* Largest byte length write_slice accepts.
MaxBytes == MAX_WRITE_LENGTH * WORD_SIZE

\* Lengths of the slices a process shares: empty, not a whole number of
\* words, two words, the maximum, and one word above the maximum.
SliceLens ==
    {0, WORD_SIZE - 1, 2 * WORD_SIZE, MaxBytes, MaxBytes + WORD_SIZE}

\* Byte i (1-based) of the memory process a shares.  TLC's integers are
\* 32 bit signed, so bytes are drawn from 0 .. 127 to keep every u32
\* assembled from them representable.
ByteAt(a, i) == (a * 53 + i * 29) % 128

\* The AppSlice<Shared, u8> values process a can allow: the first n bytes
\* of its memory.
SliceOf(a, n) == [i \in 1 .. n |-> ByteAt(a, i)]
Slices(a) == {SliceOf(a, n) : n \in SliceLens}

\* A Callback is bound by the kernel to the subscribing process.
Callbacks == [app_id : Apps, fnptr : 1 .. NumCallbacks]

\* Byte offsets passed to write and erase: aligned to nothing, to a word
\* only, and to a page.
Ptrs == {2, 100, PAGE_SIZE}

\* Sub-selectors of allow and subscribe.
SubCmds == {0, 1}

----------------------------------------------------------------------------
(* kernel::ReturnCode.                                                     *)

RC(code) == [code |-> code, value |-> 0]
SUCCESS == RC("SUCCESS")
FAIL == RC("FAIL")
EBUSY == RC("EBUSY")
EINVAL == RC("EINVAL")
ENOSUPPORT == RC("ENOSUPPORT")
SuccessWithValue(v) == [code |-> "SuccessWithValue", value |-> v]

\* Immediate codes the flash capability may answer a write or erase with.
DeviceCodes == {SUCCESS, EBUSY, EINVAL}

\* Statuses the flash capability may report on completion.
Statuses == {SUCCESS, FAIL}

\* `status.into()` (opensk_syscall.rs:90): ReturnCode -> usize goes through
\* isize (SUCCESS = 0, FAIL = -1, EBUSY = -2, ..., EINVAL = -6) and is then
\* cast; the value kept here is the isize whose bit pattern the usize has.
ReturnCodeInto(status) ==
    CASE status.code = "SuccessWithValue" -> status.value
      [] status.code = "SUCCESS" -> 0
      [] status.code = "FAIL" -> -1
      [] status.code = "EBUSY" -> -2
      [] status.code = "EINVAL" -> -6
      [] status.code = "ENOSUPPORT" -> -10

----------------------------------------------------------------------------
(* State.                                                                  *)

VARIABLES
    app,            \* OpenskSyscall.app : OptionalCell<AppId>
    grant,          \* OpenskSyscall.grant : per process AppData
    alive,          \* the processes whose grant region can be entered
    WRITE_BUFFER,   \* static mut WRITE_BUFFER : [WORD; MAX_WRITE_LENGTH]
    panic,          \* message of the assert!/expect that stopped the kernel
    ret,            \* return code of the last syscall, None for other steps
    flash_calls,    \* requests the last step issued to the flash capability,
                    \* each with the immediate code it was answered with
    scheduled,      \* callbacks the last step scheduled
    last            \* the entry point the last step ran, with its arguments

vars ==
    << app, grant, alive, WRITE_BUFFER, panic, ret, flash_calls,
       scheduled, last >>

NoPanic == ""
\* The messages of the two `expect` of done.
NoAppPanic == "There is always an app when an operation is ongoing."
AppDiedPanic == "Did the app died before the operation was done?"

\* #[derive(Default)] AppData
DefaultAppData == [callback |-> None, slice |-> None]

BufferIndices == 0 .. (MAX_WRITE_LENGTH - 1)

Entry(op, a, cmd, arg, len, status) ==
    [op |-> op, app |-> a, cmd |-> cmd, arg |-> arg, len |-> len,
     status |-> status]

\* Length of an optional slice, -1 for None.
OptLen(slice) == IF slice = None THEN -1 ELSE Len(slice[1])

\* Function pointer of an optional callback, 0 for None.
OptFn(callback) == IF callback = None THEN 0 ELSE callback[1].fnptr

Init ==
    /\ app = None
    /\ grant = [a \in Apps |-> DefaultAppData]
    /\ alive = Apps
    /\ WRITE_BUFFER = [i \in BufferIndices |-> 0]
    /\ panic = NoPanic
    /\ ret = None
    /\ flash_calls = << >>
    /\ scheduled = << >>
    /\ last = Entry("new", 0, 0, 0, -1, "")

----------------------------------------------------------------------------
(* Buffer marshalling.                                                     *)

Min(x, y) == IF x < y THEN x ELSE y

\* Mutation of from_ne_bytes: the bytes taken most significant first.
from_ne_bytes_swapped(b) == b[4] + b[3] * 256 + b[2] * 65536 + b[1] * 16777216

\* WORD::from_ne_bytes of a 4 byte array: the byte order of the target.
\* The driver is built for the H1 chip (thumbv7m), which is little endian:
\* the first byte is the least significant one.
from_ne_bytes(b) == b[1] + b[2] * 256 + b[3] * 65536 + b[4] * 16777216

\* slice.chunks(n): consecutive groups of n bytes, the last one shorter
\* when the length is no multiple of n.
chunks(slice, n) ==
    [j \in 1 .. ((Len(slice) + n - 1) \div n) |->
        SubSeq(slice, (j - 1) * n + 1, Min(j * n, Len(slice)))]

\* Mutation of marshal: the words after the written ones are zeroed.
marshal_clears_rest(buffer, slice, data_length) ==
    LET src == chunks(slice, WORD_SIZE)
        count == Min(data_length, Len(src))
    IN  [i \in BufferIndices |->
            IF i < count THEN from_ne_bytes(src[i + 1]) ELSE 0]

\* The loop of write_slice: data.iter_mut().zip(slice.chunks(WORD_SIZE))
\* over data = &mut WRITE_BUFFER[.. data_length].
marshal(buffer, slice, data_length) ==
    LET src == chunks(slice, WORD_SIZE)
        count == Min(data_length, Len(src))
    IN  [i \in BufferIndices |->
            IF i < count THEN from_ne_bytes(src[i + 1]) ELSE buffer[i]]

\* &WRITE_BUFFER[.. data_length] as the sequence of words passed on.
prefix(buffer, data_length) == [i \in 1 .. data_length |-> buffer[i - 1]]

----------------------------------------------------------------------------
(* OpenskSyscall.                                                          *)

\* Mutation of start: the check of a pending operation left out.
start_overwrites(cell, a) == [ok |-> TRUE, app |-> Some(a)]

\* Mutation of start: the owner of the pending operation may start again.
start_reentrant(cell, a) ==
    IF cell # None /\ cell # Some(a)
    THEN [ok |-> FALSE, app |-> cell]
    ELSE [ok |-> TRUE, app |-> Some(a)]

\* start: the value it returns and the value it leaves in self.app.
start(cell, a) ==
    IF cell # None
    THEN [ok |-> FALSE, app |-> cell]
    ELSE [ok |-> TRUE, app |-> Some(a)]

\* Mutation of write_rejected: the check for whole words left out.
write_rejected_partial_word(ptr, slice) ==
    \/ ptr % WORD_SIZE # 0
    \/ Len(slice) \div WORD_SIZE > MAX_WRITE_LENGTH

\* The validation of write_slice: the condition of its first return.
write_rejected(ptr, slice) ==
    LET data_length == Len(slice) \div WORD_SIZE
    IN  \/ ptr % WORD_SIZE # 0
        \/ Len(slice) % WORD_SIZE # 0
        \/ data_length > MAX_WRITE_LENGTH

\* Mutation of write_slice: the words are marshalled before start is tried.
write_slice_marshal_first(a, ptr, slice) ==
    LET data_length == Len(slice) \div WORD_SIZE
        st == start(app, a)
    IN  IF write_rejected(ptr, slice)
        THEN /\ ret' = Some(EINVAL)
             /\ flash_calls' = << >>
             /\ UNCHANGED << app, WRITE_BUFFER >>
        ELSE /\ WRITE_BUFFER' = marshal(WRITE_BUFFER, slice, data_length)
             /\ app' = st.app
             /\ IF ~st.ok
                THEN /\ ret' = Some(EBUSY)
                     /\ flash_calls' = << >>
                ELSE \E code \in DeviceCodes :
                        /\ flash_calls' =
                               << [op |-> "write", target |-> ptr \div WORD_SIZE,
                                   data |-> prefix(WRITE_BUFFER', data_length),
                                   code |-> code] >>
                        /\ ret' = Some(code)

\* Mutation of write_slice: the marker is released when the flash
\* capability refuses the write.
write_slice_resets_on_failure(a, ptr, slice) ==
    LET data_length == Len(slice) \div WORD_SIZE
        st == start(app, a)
    IN  IF write_rejected(ptr, slice)
        THEN /\ ret' = Some(EINVAL)
             /\ flash_calls' = << >>
             /\ UNCHANGED << app, WRITE_BUFFER >>
        ELSE IF ~st.ok
        THEN /\ ret' = Some(EBUSY)
             /\ flash_calls' = << >>
             /\ app' = st.app
             /\ UNCHANGED WRITE_BUFFER
        ELSE /\ WRITE_BUFFER' = marshal(WRITE_BUFFER, slice, data_length)
             /\ \E code \in DeviceCodes :
                    /\ flash_calls' =
                           << [op |-> "write", target |-> ptr \div WORD_SIZE,
                               data |-> prefix(WRITE_BUFFER', data_length),
                               code |-> code] >>
                    /\ ret' = Some(code)
                    /\ app' = IF code = SUCCESS THEN st.app ELSE None

write_slice(a, ptr, slice) ==
    LET data_length == Len(slice) \div WORD_SIZE
        st == start(app, a)
    IN  IF write_rejected(ptr, slice)
        THEN /\ ret' = Some(EINVAL)
             /\ flash_calls' = << >>
             /\ UNCHANGED << app, WRITE_BUFFER >>
        ELSE IF ~st.ok
        THEN /\ ret' = Some(EBUSY)
             /\ flash_calls' = << >>
             /\ app' = st.app
             /\ UNCHANGED WRITE_BUFFER
        ELSE /\ app' = st.app
             /\ WRITE_BUFFER' = marshal(WRITE_BUFFER, slice, data_length)
             /\ \E code \in DeviceCodes :
                    /\ flash_calls' =
                           << [op |-> "write", target |-> ptr \div WORD_SIZE,
                               data |-> prefix(WRITE_BUFFER', data_length),
                               code |-> code] >>
                    /\ ret' = Some(code)

\* Mutation of erase_rejected: aligned to a word instead of a page.
erase_rejected_word(ptr) == ptr % WORD_SIZE # 0

\* The validation of erase_page: the condition of its first return.
erase_rejected(ptr) == ptr % PAGE_SIZE # 0

\* Mutation of erase_page: the erase is issued whatever start answers.
erase_page_unguarded(a, ptr) ==
    LET st == start(app, a)
    IN  IF erase_rejected(ptr)
        THEN /\ ret' = Some(EINVAL)
             /\ flash_calls' = << >>
             /\ UNCHANGED app
        ELSE /\ app' = st.app
             /\ \E code \in DeviceCodes :
                    /\ flash_calls' =
                           << [op |-> "erase", target |-> ptr \div WORD_SIZE,
                               data |-> << >>, code |-> code] >>
                    /\ ret' = Some(code)

\* Mutation of erase_page: start is tried before the offset is validated.
erase_page_start_first(a, ptr) ==
    LET st == start(app, a)
    IN  IF ~st.ok
        THEN /\ ret' = Some(EBUSY)
             /\ flash_calls' = << >>
             /\ app' = st.app
        ELSE IF erase_rejected(ptr)
        THEN /\ ret' = Some(EINVAL)
             /\ flash_calls' = << >>
             /\ app' = st.app
        ELSE /\ app' = st.app
             /\ \E code \in DeviceCodes :
                    /\ flash_calls' =
                           << [op |-> "erase", target |-> ptr \div WORD_SIZE,
                               data |-> << >>, code |-> code] >>
                    /\ ret' = Some(code)

erase_page(a, ptr) ==
    LET st == start(app, a)
    IN  IF erase_rejected(ptr)
        THEN /\ ret' = Some(EINVAL)
             /\ flash_calls' = << >>
             /\ UNCHANGED app
        ELSE IF ~st.ok
        THEN /\ ret' = Some(EBUSY)
             /\ flash_calls' = << >>
             /\ app' = st.app
        ELSE /\ app' = st.app
             /\ \E code \in DeviceCodes :
                    /\ flash_calls' =
                           << [op |-> "erase", target |-> ptr \div WORD_SIZE,
                               data |-> << >>, code |-> code] >>
                    /\ ret' = Some(code)

\* Mutation of deliver: the callback stays registered after it is scheduled.
deliver_keeps_callback(data, status) ==
    [data |-> data,
     scheduled |->
        IF data.callback # None
        THEN << [callback |-> data.callback[1],
                 r0 |-> ReturnCodeInto(status), r1 |-> 0, r2 |-> 0] >>
        ELSE << >>]

\* Mutation of deliver: the callback is told success whatever the status.
deliver_status_dropped(data, status) ==
    [data |-> [data EXCEPT !.callback = None],
     scheduled |->
        IF data.callback # None
        THEN << [callback |-> data.callback[1], r0 |-> 0, r1 |-> 0, r2 |-> 0] >>
        ELSE << >>]

\* The closure done runs on the owner's AppData: the AppData it leaves
\* and the callbacks it schedules.
deliver(data, status) ==
    [data |-> [data EXCEPT !.callback = None],
     scheduled |->
        IF data.callback # None
        THEN << [callback |-> data.callback[1],
                 r0 |-> ReturnCodeInto(status), r1 |-> 0, r2 |-> 0] >>
        ELSE << >>]

\* Mutation of done: the scratch buffer is cleared on completion.
done_clears_buffer(status) ==
    /\ ret' = None
    /\ flash_calls' = << >>
    /\ UNCHANGED alive
    /\ IF app = None
       THEN /\ panic' = NoAppPanic
            /\ scheduled' = << >>
            /\ UNCHANGED << app, grant, WRITE_BUFFER >>
       ELSE LET owner == app[1] IN
            /\ app' = None
            /\ WRITE_BUFFER' = [i \in BufferIndices |-> 0]
            /\ IF owner \notin alive
               THEN /\ panic' = AppDiedPanic
                    /\ scheduled' = << >>
                    /\ UNCHANGED grant
               ELSE /\ panic' = NoPanic
                    /\ grant' =
                           [grant EXCEPT ![owner] = deliver(grant[owner], status).data]
                    /\ scheduled' = deliver(grant[owner], status).scheduled

\* Mutation of done: a missing callback is taken for an error.
done_expects_callback(status) ==
    /\ ret' = None
    /\ flash_calls' = << >>
    /\ UNCHANGED << alive, WRITE_BUFFER >>
    /\ IF app = None
       THEN /\ panic' = NoAppPanic
            /\ scheduled' = << >>
            /\ UNCHANGED << app, grant >>
       ELSE LET owner == app[1] IN
            /\ app' = None
            /\ IF owner \notin alive \/ grant[owner].callback = None
               THEN /\ panic' = AppDiedPanic
                    /\ scheduled' = << >>
                    /\ UNCHANGED grant
               ELSE /\ panic' = NoPanic
                    /\ grant' =
                           [grant EXCEPT ![owner] = deliver(grant[owner], status).data]
                    /\ scheduled' = deliver(grant[owner], status).scheduled

\* Mutation of done: a completion without a pending operation is ignored.
done_ignores_idle(status) ==
    /\ ret' = None
    /\ flash_calls' = << >>
    /\ UNCHANGED << alive, WRITE_BUFFER >>
    /\ IF app = None
       THEN /\ panic' = NoPanic
            /\ scheduled' = << >>
            /\ UNCHANGED << app, grant >>
       ELSE LET owner == app[1] IN
            /\ app' = None
            /\ IF owner \notin alive
               THEN /\ panic' = AppDiedPanic
                    /\ scheduled' = << >>
                    /\ UNCHANGED grant
               ELSE /\ panic' = NoPanic
                    /\ grant' =
                           [grant EXCEPT ![owner] = deliver(grant[owner], status).data]
                    /\ scheduled' = deliver(grant[owner], status).scheduled

\* Mutation of done: the operation of a dead owner is reclaimed silently.
done_reclaims(status) ==
    /\ ret' = None
    /\ flash_calls' = << >>
    /\ UNCHANGED << alive, WRITE_BUFFER >>
    /\ IF app = None
       THEN /\ panic' = NoAppPanic
            /\ scheduled' = << >>
            /\ UNCHANGED << app, grant >>
       ELSE LET owner == app[1] IN
            /\ app' = None
            /\ panic' = NoPanic
            /\ IF owner \notin alive
               THEN /\ scheduled' = << >>
                    /\ UNCHANGED grant
               ELSE /\ grant' =
                           [grant EXCEPT ![owner] = deliver(grant[owner], status).data]
                    /\ scheduled' = deliver(grant[owner], status).scheduled

done(status) ==
    /\ ret' = None
    /\ flash_calls' = << >>
    /\ UNCHANGED << alive, WRITE_BUFFER >>
    /\ IF app = None
       THEN /\ panic' = NoAppPanic
            /\ scheduled' = << >>
            /\ UNCHANGED << app, grant >>
       ELSE LET owner == app[1] IN
            /\ app' = None
            /\ IF owner \notin alive
               THEN /\ panic' = AppDiedPanic
                    /\ scheduled' = << >>
                    /\ UNCHANGED grant
               ELSE /\ panic' = NoPanic
                    /\ grant' =
                           [grant EXCEPT ![owner] = deliver(grant[owner], status).data]
                    /\ scheduled' = deliver(grant[owner], status).scheduled

----------------------------------------------------------------------------
(* impl Driver.  A syscall is made by a running process, so grant.enter    *)
(* finds its region and the `expect` after it does not fire.               *)

\* Mutation of query: the maximum write length is reported in words.
query_length_in_words(arg) ==
    CASE arg = 0 -> SuccessWithValue(WORD_SIZE)
      [] arg = 1 -> SuccessWithValue(PAGE_SIZE)
      [] arg = 2 -> SuccessWithValue(MAX_WRITE_COUNT)
      [] arg = 3 -> SuccessWithValue(MAX_ERASE_COUNT)
      [] arg = 4 -> SuccessWithValue(MAX_WRITE_LENGTH)
      [] OTHER -> EINVAL

query(arg) ==
    CASE arg = 0 -> SuccessWithValue(WORD_SIZE)
      [] arg = 1 -> SuccessWithValue(PAGE_SIZE)
      [] arg = 2 -> SuccessWithValue(MAX_WRITE_COUNT)
      [] arg = 3 -> SuccessWithValue(MAX_ERASE_COUNT)
      [] arg = 4 -> SuccessWithValue(MAX_WRITE_LENGTH * WORD_SIZE)
      [] OTHER -> EINVAL

\* Mutation of command: write reads the registered slice without taking it.
command_keeps_slice(cmd, arg, a) ==
    /\ panic = NoPanic
    /\ a \in alive
    /\ last' = Entry("command", a, cmd, arg, OptLen(grant[a].slice), "")
    /\ scheduled' = << >>
    /\ UNCHANGED << alive, panic >>
    /\ CASE cmd = 0 ->
              /\ ret' = Some(SUCCESS)
              /\ flash_calls' = << >>
              /\ UNCHANGED << app, grant, WRITE_BUFFER >>
         [] cmd = 1 ->
              /\ ret' = Some(query(arg))
              /\ flash_calls' = << >>
              /\ UNCHANGED << app, grant, WRITE_BUFFER >>
         [] cmd = 2 ->
              /\ UNCHANGED grant
              /\ IF grant[a].slice = None
                 THEN /\ ret' = Some(EINVAL)
                      /\ flash_calls' = << >>
                      /\ UNCHANGED << app, WRITE_BUFFER >>
                 ELSE write_slice(a, arg, grant[a].slice[1])
         [] cmd = 3 ->
              /\ erase_page(a, arg)
              /\ UNCHANGED << grant, WRITE_BUFFER >>
         [] OTHER ->
              /\ ret' = Some(ENOSUPPORT)
              /\ flash_calls' = << >>
              /\ UNCHANGED << app, grant, WRITE_BUFFER >>

command(cmd, arg, a) ==
    /\ panic = NoPanic
    /\ a \in alive
    /\ last' = Entry("command", a, cmd, arg, OptLen(grant[a].slice), "")
    /\ scheduled' = << >>
    /\ UNCHANGED << alive, panic >>
    /\ CASE cmd = 0 ->
              /\ ret' = Some(SUCCESS)
              /\ flash_calls' = << >>
              /\ UNCHANGED << app, grant, WRITE_BUFFER >>
         [] cmd = 1 ->
              /\ ret' = Some(query(arg))
              /\ flash_calls' = << >>
              /\ UNCHANGED << app, grant, WRITE_BUFFER >>
         [] cmd = 2 ->
              /\ grant' = [grant EXCEPT ![a].slice = None]
              /\ IF grant[a].slice = None
                 THEN /\ ret' = Some(EINVAL)
                      /\ flash_calls' = << >>
                      /\ UNCHANGED << app, WRITE_BUFFER >>
                 ELSE write_slice(a, arg, grant[a].slice[1])
         [] cmd = 3 ->
              /\ erase_page(a, arg)
              /\ UNCHANGED << grant, WRITE_BUFFER >>
         [] OTHER ->
              /\ ret' = Some(ENOSUPPORT)
              /\ flash_calls' = << >>
              /\ UNCHANGED << app, grant, WRITE_BUFFER >>

\* Mutation of allow: a buffer is refused while an operation is pending.
allow_busy_when_pending(a, cmd, slice) ==
    /\ panic = NoPanic
    /\ a \in alive
    /\ last' = Entry("allow", a, cmd, 0, OptLen(slice), "")
    /\ scheduled' = << >>
    /\ flash_calls' = << >>
    /\ UNCHANGED << app, alive, WRITE_BUFFER, panic >>
    /\ IF cmd = 0
       THEN IF app = None
            THEN /\ grant' = [grant EXCEPT ![a].slice = slice]
                 /\ ret' = Some(SUCCESS)
            ELSE /\ ret' = Some(EBUSY)
                 /\ UNCHANGED grant
       ELSE /\ ret' = Some(ENOSUPPORT)
            /\ UNCHANGED grant

allow(a, cmd, slice) ==
    /\ panic = NoPanic
    /\ a \in alive
    /\ last' = Entry("allow", a, cmd, 0, OptLen(slice), "")
    /\ scheduled' = << >>
    /\ flash_calls' = << >>
    /\ UNCHANGED << app, alive, WRITE_BUFFER, panic >>
    /\ IF cmd = 0
       THEN /\ grant' = [grant EXCEPT ![a].slice = slice]
            /\ ret' = Some(SUCCESS)
       ELSE /\ ret' = Some(ENOSUPPORT)
            /\ UNCHANGED grant

\* Mutation of subscribe: the owner of the pending operation cannot change
\* its callback.
subscribe_busy_when_owner(cmd, callback, a) ==
    /\ panic = NoPanic
    /\ a \in alive
    /\ last' = Entry("subscribe", a, cmd, OptFn(callback), -1, "")
    /\ scheduled' = << >>
    /\ flash_calls' = << >>
    /\ UNCHANGED << app, alive, WRITE_BUFFER, panic >>
    /\ IF cmd = 0
       THEN IF app = Some(a)
            THEN /\ ret' = Some(EBUSY)
                 /\ UNCHANGED grant
            ELSE /\ grant' = [grant EXCEPT ![a].callback = callback]
                 /\ ret' = Some(SUCCESS)
       ELSE /\ ret' = Some(ENOSUPPORT)
            /\ UNCHANGED grant

subscribe(cmd, callback, a) ==
    /\ panic = NoPanic
    /\ a \in alive
    /\ last' = Entry("subscribe", a, cmd, OptFn(callback), -1, "")
    /\ scheduled' = << >>
    /\ flash_calls' = << >>
    /\ UNCHANGED << app, alive, WRITE_BUFFER, panic >>
    /\ IF cmd = 0
       THEN /\ grant' = [grant EXCEPT ![a].callback = callback]
            /\ ret' = Some(SUCCESS)
       ELSE /\ ret' = Some(ENOSUPPORT)
            /\ UNCHANGED grant

----------------------------------------------------------------------------
(* impl Client: the completion entry points the flash capability calls.    *)

erase_done(status) ==
    /\ panic = NoPanic
    /\ last' = Entry("erase_done", 0, 0, 0, -1, status.code)
    /\ done(status)

write_done(status) ==
    /\ panic = NoPanic
    /\ last' = Entry("write_done", 0, 0, 0, -1, status.code)
    /\ done(status)

----------------------------------------------------------------------------
(* The process lifecycle, controlled by the kernel: a process that         *)
(* terminates loses its grant region, and grant.enter fails for it.        *)

AppDies(a) ==
    /\ panic = NoPanic
    /\ a \in alive
    /\ alive' = alive \ {a}
    /\ grant' = [grant EXCEPT ![a] = DefaultAppData]
    /\ last' = Entry("dies", a, 0, 0, -1, "")
    /\ ret' = None
    /\ flash_calls' = << >>
    /\ scheduled' = << >>
    /\ UNCHANGED << app, WRITE_BUFFER, panic >>

----------------------------------------------------------------------------

(* Spec: the protocol between the processes, the driver and the flash     *)
(* capability.  Every process shares a two word buffer or none, writes    *)
(* and erases at a word aligned and at a page aligned offset, subscribes  *)
(* and may terminate; the flash capability completes, also unasked.       *)

ProtocolPtrs == {100, PAGE_SIZE}
ProtocolSlices(a) == {None, Some(SliceOf(a, 2 * WORD_SIZE))}
AppCallbacks(a) == {None} \cup {Some(cb) : cb \in {c \in Callbacks : c.app_id = a}}

Write == \E a \in Apps, ptr \in ProtocolPtrs : command(2, ptr, a)

Erase == \E a \in Apps, ptr \in ProtocolPtrs : command(3, ptr, a)

Allow ==
    \E a \in Apps, cmd \in SubCmds :
        \E slice \in ProtocolSlices(a) : allow(a, cmd, slice)

Subscribe ==
    \E a \in Apps, cmd \in SubCmds :
        \E callback \in AppCallbacks(a) : subscribe(cmd, callback, a)

EraseDone == \E status \in Statuses : erase_done(status)

WriteDone == \E status \in Statuses : write_done(status)

Dies == \E a \in Apps : AppDies(a)

Next == Write \/ Erase \/ Allow \/ Subscribe \/ EraseDone \/ WriteDone \/ Dies

Spec == Init /\ [][Next]_vars

----------------------------------------------------------------------------
(* SpecCalls: the arguments of the command syscall.  The writers share    *)
(* buffers of every length in SliceLens and write at every offset in      *)
(* Ptrs; every process erases and queries; the flash capability           *)
(* completes.                                                             *)

\* Sub-selectors of the query command: the five defined ones and another.
QueryArgs == 0 .. 5
\* Command selectors: the four defined ones and another.
OtherCmd == 4

AllowAny ==
    \E a \in Writers : \E slice \in {None} \cup {Some(sl) : sl \in Slices(a)} :
        allow(a, 0, slice)

WriteAny == \E a \in Writers, ptr \in Ptrs : command(2, ptr, a)

EraseAny == \E a \in Apps, ptr \in Ptrs : command(3, ptr, a)

Probe == \E a \in Apps : command(0, 0, a)

Query == \E a \in Apps, arg \in QueryArgs : command(1, arg, a)

Unsupported == \E a \in Apps : command(OtherCmd, 0, a)

NextCalls ==
    \/ AllowAny \/ WriteAny \/ EraseAny \/ Probe \/ Query \/ Unsupported
    \/ EraseDone \/ WriteDone

SpecCalls == Init /\ [][NextCalls]_vars

----------------------------------------------------------------------------
(* Properties.  A step is identified by the entry it leaves in `last'`;    *)
(* the unprimed variables are the state the entry point was called in.     *)

IsWrite(e) == e.op = "command" /\ e.cmd = 2
IsErase(e) == e.op = "command" /\ e.cmd = 3
IsDone(e) == e.op \in {"erase_done", "write_done"}

\* A write call with a registered buffer of a whole number of words, at
\* most 128 bytes, at an offset divisible by 4.
PassesWriteValidation(e) ==
    /\ IsWrite(e)
    /\ e.len >= 0
    /\ e.len % 4 = 0
    /\ e.len <= 128
    /\ e.arg % 4 = 0

\* An erase call at an offset divisible by 2048.
PassesEraseValidation(e) == IsErase(e) /\ e.arg % 2048 = 0

\* C1: the marker is Idle or Owned(c) for one client c; it goes from Idle
\* to Owned(c) only in a write or erase of c that passed validation; a
\* request reaches the flash capability only in such a step, one per step,
\* so never while another is outstanding; a write or erase made while the
\* marker is Owned issues nothing and leaves the marker and its owner as
\* they were; the owner changes only through Idle.
C1_SingleOutstanding ==
    [][ /\ (app' = None \/ \E c \in Apps : app' = Some(c))
        /\ (app = None /\ app' # None) =>
              /\ PassesWriteValidation(last') \/ PassesEraseValidation(last')
              /\ app' = Some(last'.app)
        /\ flash_calls' # << >> =>
              /\ Len(flash_calls') = 1
              /\ app = None
              /\ app' # None
        /\ (app # None /\ (IsWrite(last') \/ IsErase(last'))) =>
              /\ app' = app
              /\ flash_calls' = << >>
              /\ ret' \in {Some(EBUSY), Some(EINVAL)}
        /\ (app # None /\ app' # None) => app' = app
      ]_vars

\* A start attempt of one client failed while another client owns the marker.
C1_Witness ==
    /\ app # None
    /\ IsWrite(last) \/ IsErase(last)
    /\ last.app # app[1]
    /\ ret = Some(EBUSY)
    /\ flash_calls = << >>

\* C2: a write of client a called while the marker is Idle, with a
\* registered buffer of 4n bytes (1 <= n <= 32) at an offset divisible by 4,
\* issues exactly one request, a write at word address offset / 4 of n
\* words; word i is the scratch buffer's word i and is made of the bytes
\* 4i .. 4i+3 of the buffer, least significant first; the call returns the
\* code the flash capability answered.
C2_WriteIssuesMarshalledWords ==
    [][ \A a \in Apps :
          ( /\ IsWrite(last')
            /\ last'.app = a
            /\ app = None
            /\ grant[a].slice # None
            /\ Len(grant[a].slice[1]) > 0
            /\ Len(grant[a].slice[1]) % 4 = 0
            /\ Len(grant[a].slice[1]) <= 128
            /\ last'.arg % 4 = 0 )
          => LET bytes == grant[a].slice[1]
                 n == Len(bytes) \div 4
             IN  /\ Len(flash_calls') = 1
                 /\ flash_calls'[1].op = "write"
                 /\ flash_calls'[1].target * 4 = last'.arg
                 /\ Len(flash_calls'[1].data) = n
                 /\ \A i \in 0 .. (n - 1) :
                       LET w == flash_calls'[1].data[i + 1]
                       IN  /\ WRITE_BUFFER'[i] = w
                           /\ w % 256 = bytes[4 * i + 1]
                           /\ (w \div 256) % 256 = bytes[4 * i + 2]
                           /\ (w \div 65536) % 256 = bytes[4 * i + 3]
                           /\ w \div 16777216 = bytes[4 * i + 4]
                 /\ ret' = Some(flash_calls'[1].code)
      ]_vars

\* A write of 128 bytes was issued as 32 words and answered with a
\* failure code of the flash capability, which the call returned.
C2_Witness ==
    /\ IsWrite(last)
    /\ last.len = 128
    /\ Len(flash_calls) = 1
    /\ Len(flash_calls[1].data) = 32
    /\ flash_calls[1].target = 25
    /\ ret = Some(EBUSY)

\* C3: a write with a registered buffer whose offset is not divisible by
\* 4, or whose length is no multiple of 4 or exceeds 128 bytes, returns
\* InvalidArgument in every marker state, issues no request and leaves the
\* marker and the scratch buffer as they were.
C3_InvalidWriteRejected ==
    [][ \A a \in Apps :
          ( /\ IsWrite(last')
            /\ last'.app = a
            /\ grant[a].slice # None
            /\ \/ last'.arg % 4 # 0
               \/ Len(grant[a].slice[1]) % 4 # 0
               \/ Len(grant[a].slice[1]) > 128 )
          => /\ ret' = Some(EINVAL)
             /\ flash_calls' = << >>
             /\ app' = app
             /\ WRITE_BUFFER' = WRITE_BUFFER
      ]_vars

\* A write of more than 128 bytes at an aligned offset was rejected while
\* an operation was pending and the scratch buffer held words.
C3_Witness ==
    /\ IsWrite(last)
    /\ last.len > 128
    /\ last.len % 4 = 0
    /\ last.arg % 4 = 0
    /\ ret = Some(EINVAL)
    /\ app # None
    /\ WRITE_BUFFER[0] # 0

\* C4: an erase at an offset not divisible by 2048 returns InvalidArgument
\* in every marker state, issues no request and changes neither the
\* marker, the scratch buffer nor any client record.
C4_MisalignedEraseRejected ==
    [][ (IsErase(last') /\ last'.arg % 2048 # 0)
        => /\ ret' = Some(EINVAL)
           /\ flash_calls' = << >>
           /\ UNCHANGED << app, WRITE_BUFFER, grant >>
      ]_vars

\* erase(A, 100) was rejected while A's own operation, an erase (no write
\* ever filled the scratch buffer), was pending.
C4_Witness ==
    /\ IsErase(last)
    /\ last.arg = 100
    /\ ret = Some(EINVAL)
    /\ app = Some(last.app)
    /\ \A i \in BufferIndices : WRITE_BUFFER[i] = 0

\* C5 as stated: while an operation is pending every write or erase call,
\* whatever its arguments, returns Busy.
C5_EveryCallBusyWhilePending ==
    [][ (app # None /\ (IsWrite(last') \/ IsErase(last')))
        => ret' = Some(EBUSY)
      ]_vars

\* C5, amended: while an operation is pending, every write or erase call
\* of any client, the owner included, that passes validation returns Busy
\* and every other write or erase call returns InvalidArgument; the marker
\* stays Owned by the same client until a completion is delivered.
C5_ValidCallsBusyWhilePending ==
    [][ /\ (app # None /\ (PassesWriteValidation(last') \/ PassesEraseValidation(last')))
           => ret' = Some(EBUSY)
        /\ ( /\ app # None
             /\ IsWrite(last') \/ IsErase(last')
             /\ ~PassesWriteValidation(last')
             /\ ~PassesEraseValidation(last') )
           => ret' = Some(EINVAL)
        /\ (app # None /\ app' # app) => (IsDone(last') /\ app' = None)
      ]_vars

\* The owner's own valid write was answered Busy by the driver.
C5_Witness ==
    /\ app # None
    /\ last.app = app[1]
    /\ PassesWriteValidation(last)
    /\ ret = Some(EBUSY)
    /\ flash_calls = << >>

\* C6: while client A's operation is pending, a write of another client B
\* with a registered buffer that passes validation, or an erase of B at a
\* page aligned offset, returns Busy, issues no request, leaves the marker
\* Owned(A) and leaves every word of the scratch buffer as it was.
C6_ContendingCallBusy ==
    [][ \A A \in Apps :
          ( /\ app = Some(A)
            /\ last'.app # A
            /\ PassesWriteValidation(last') \/ PassesEraseValidation(last') )
          => /\ ret' = Some(EBUSY)
             /\ flash_calls' = << >>
             /\ app' = Some(A)
             /\ WRITE_BUFFER' = WRITE_BUFFER
      ]_vars

\* B's valid write was answered Busy while A owned the marker and the
\* scratch buffer held the two words of A's buffer.
C6_Witness ==
    /\ app # None
    /\ last.app # app[1]
    /\ PassesWriteValidation(last)
    /\ last.len = 8
    /\ ret = Some(EBUSY)
    /\ flash_calls = << >>
    /\ \A i \in 0 .. 1 :
          /\ WRITE_BUFFER[i] % 256 = ByteAt(app[1], 4 * i + 1)
          /\ WRITE_BUFFER[i] \div 16777216 = ByteAt(app[1], 4 * i + 4)

\* C7: a completion with status s delivered while the marker is Owned(c)
\* and c's record holds a callback sets the marker Idle and schedules
\* exactly one callback, c's, with the arguments (s, 0, 0), s being 0 for
\* success and -1 (as usize) for failure; and a write or erase that passes
\* validation while the marker is Idle is handed to the flash capability
\* and makes its caller the owner.
C7_CompletionNotifiesOwner ==
    [][ /\ \A c \in Apps :
             ( /\ IsDone(last')
               /\ app = Some(c)
               /\ c \in alive
               /\ grant[c].callback # None )
             => /\ app' = None
                /\ panic' = NoPanic
                /\ grant[c].callback[1].app_id = c
                /\ scheduled' =
                      << [callback |-> grant[c].callback[1],
                          r0 |-> IF last'.status = "SUCCESS" THEN 0 ELSE -1,
                          r1 |-> 0, r2 |-> 0] >>
        /\ (app = None /\ (PassesWriteValidation(last') \/ PassesEraseValidation(last')))
           => /\ Len(flash_calls') = 1
              /\ app' = Some(last'.app)
              /\ ret' = Some(flash_calls'[1].code)
      ]_vars

\* A completion with a failure status was forwarded to the owner's callback
\* alone, while another client had a callback registered too.
C7_Witness ==
    /\ IsDone(last)
    /\ last.status = "FAIL"
    /\ app = None
    /\ panic = NoPanic
    /\ Len(scheduled) = 1
    /\ scheduled[1].r0 = -1
    /\ \E b \in Apps :
          /\ b # scheduled[1].callback.app_id
          /\ grant[b].callback # None

\* C8: a completion delivered while the marker is Owned(c) and c's record
\* exists without a callback schedules nothing, raises no fatal error,
\* sets the marker Idle and leaves every record as it was.
C8_CompletionWithoutCallback ==
    [][ \A c \in Apps :
          ( /\ IsDone(last')
            /\ app = Some(c)
            /\ c \in alive
            /\ grant[c].callback = None )
          => /\ scheduled' = << >>
             /\ panic' = NoPanic
             /\ app' = None
             /\ grant' = grant
      ]_vars

\* A completion was delivered without a fatal error (so the marker was
\* Owned and the owner alive) and scheduled nothing, while another client
\* had a callback registered.
C8_Witness ==
    /\ IsDone(last)
    /\ panic = NoPanic
    /\ app = None
    /\ scheduled = << >>
    /\ \E b \in Apps : grant[b].callback # None

\* C9: a completion delivered while the marker is Idle raises the fatal
\* error of done, schedules no callback and changes neither the marker,
\* the records nor the scratch buffer; and no entry point runs after a
\* fatal error.
C9_CompletionWhileIdleFatal ==
    [][ /\ (IsDone(last') /\ app = None)
           => /\ panic' = NoAppPanic
              /\ scheduled' = << >>
              /\ UNCHANGED << app, grant, alive, WRITE_BUFFER >>
        /\ panic = NoPanic
      ]_vars

\* A completion arrived while the marker was Idle and a callback was
\* registered: the fatal error was raised and nothing scheduled.
C9_Witness ==
    /\ IsDone(last)
    /\ panic = NoAppPanic
    /\ scheduled = << >>
    /\ \E b \in Apps : grant[b].callback # None

\* C10: a completion delivered while the marker is Owned(c) and c's record
\* no longer exists raises the fatal error of done and schedules no
\* callback.
C10_CompletionForDeadOwnerFatal ==
    [][ \A c \in Apps :
          (IsDone(last') /\ app = Some(c) /\ c \notin alive)
          => /\ panic' = AppDiedPanic
             /\ scheduled' = << >>
             /\ UNCHANGED << grant, alive, WRITE_BUFFER >>
      ]_vars

\* The owner died with its operation pending and the completion raised
\* the fatal error, while a surviving client had a callback registered.
C10_Witness ==
    /\ IsDone(last)
    /\ panic = AppDiedPanic
    /\ scheduled = << >>
    /\ alive # Apps
    /\ \E b \in alive : grant[b].callback # None

\* C11: a write of client c that finds a buffer in c's record leaves the
\* record without a buffer (and its callback as it was); a write of c
\* that finds no buffer returns InvalidArgument in every marker state,
\* issues no request and leaves the marker and the scratch buffer as they
\* were; a buffer enters a record only through allow.
C11_BufferConsumedOnce ==
    [][ \A c \in Apps :
          /\ (IsWrite(last') /\ last'.app = c)
             => /\ grant'[c].slice = None
                /\ grant'[c].callback = grant[c].callback
          /\ (IsWrite(last') /\ last'.app = c /\ grant[c].slice = None)
             => /\ ret' = Some(EINVAL)
                /\ flash_calls' = << >>
                /\ app' = app
                /\ WRITE_BUFFER' = WRITE_BUFFER
          /\ (grant[c].slice = None /\ grant'[c].slice # None)
             => (last'.op = "allow" /\ last'.app = c /\ last'.cmd = 0)
      ]_vars

\* The owner of the marker, whose write filled the scratch buffer and
\* consumed its buffer, wrote again without a new buffer and was rejected.
C11_Witness ==
    /\ IsWrite(last)
    /\ last.len = -1
    /\ ret = Some(EINVAL)
    /\ flash_calls = << >>
    /\ app = Some(last.app)
    /\ WRITE_BUFFER[0] # 0
    /\ grant[last.app].slice = None

\* C12 as stated: a write or erase the driver rejects with InvalidArgument
\* or Busy (no request is issued) leaves the marker, the scratch buffer
\* and every client record as they were.
C12_RejectionChangesNothing ==
    [][ ( /\ IsWrite(last') \/ IsErase(last')
          /\ flash_calls' = << >>
          /\ ret' \in {Some(EINVAL), Some(EBUSY)} )
        => UNCHANGED << app, WRITE_BUFFER, grant >>
      ]_vars

\* C12, amended: a write or erase the driver rejects with InvalidArgument
\* or Busy leaves the marker, the scratch buffer, every callback and every
\* registered buffer as they were, but for the registered buffer of the
\* caller of a rejected write, which is cleared.
C12_RejectionKeepsAllButWritersBuffer ==
    [][ ( /\ IsWrite(last') \/ IsErase(last')
          /\ flash_calls' = << >>
          /\ ret' \in {Some(EINVAL), Some(EBUSY)} )
        => /\ UNCHANGED << app, WRITE_BUFFER >>
           /\ \A c \in Apps :
                 /\ grant'[c].callback = grant[c].callback
                 /\ grant'[c].slice =
                       IF IsWrite(last') /\ last'.app = c
                       THEN None
                       ELSE grant[c].slice
      ]_vars

\* A valid write was answered Busy by the driver: the caller's buffer is
\* gone, its callback and the other client's buffer are still registered.
C12_Witness ==
    /\ IsWrite(last)
    /\ last.len = 8
    /\ ret = Some(EBUSY)
    /\ flash_calls = << >>
    /\ grant[last.app].slice = None
    /\ grant[last.app].callback # None
    /\ \E b \in Apps : b # last.app /\ grant[b].slice # None

\* C13: a request is issued only in a step that takes the marker from Idle
\* to Owned, and every such step issues exactly one; the marker returns to
\* Idle only in a completion; a completion that finds the marker Idle
\* stops the kernel.  So requests and delivered completions alternate,
\* starting with a request.  A write or erase schedules no callback.
C13_RequestsAndCompletionsAlternate ==
    [][ /\ flash_calls' # << >> =>
              (Len(flash_calls') = 1 /\ app = None /\ app' # None)
        /\ (app = None /\ app' # None) => Len(flash_calls') = 1
        /\ (app # None /\ app' = None) => IsDone(last')
        /\ IsDone(last') =>
              /\ flash_calls' = << >>
              /\ app' = None
              /\ app = None => panic' # NoPanic
        /\ last'.op = "command" => scheduled' = << >>
      ]_vars

\* An erase was issued after an earlier write request (whose words are in
\* the scratch buffer): a completion was delivered between the two.
C13_Witness ==
    /\ Len(flash_calls) = 1
    /\ flash_calls[1].op = "erase"
    /\ app = Some(last.app)
    /\ WRITE_BUFFER[0] # 0
    /\ scheduled = << >>

\* C14: the scratch buffer changes only in a write step of a client c that
\* takes the marker from Idle to Owned(c) and issues the write; every word
\* that changes is then made of the corresponding four bytes of c's
\* buffer, so while the marker is Owned the buffer stays as it is.
C14_ScratchWrittenOnlyByStartedWrite ==
    [][ /\ WRITE_BUFFER' # WRITE_BUFFER =>
              /\ IsWrite(last')
              /\ app = None
              /\ app' = Some(last'.app)
              /\ Len(flash_calls') = 1
              /\ flash_calls'[1].op = "write"
              /\ LET bytes == grant[last'.app].slice[1]
                 IN  \A i \in BufferIndices :
                        WRITE_BUFFER'[i] # WRITE_BUFFER[i] =>
                           /\ 4 * i + 4 <= Len(bytes)
                           /\ WRITE_BUFFER'[i] % 256 = bytes[4 * i + 1]
                           /\ (WRITE_BUFFER'[i] \div 256) % 256 = bytes[4 * i + 2]
                           /\ (WRITE_BUFFER'[i] \div 65536) % 256 = bytes[4 * i + 3]
                           /\ WRITE_BUFFER'[i] \div 16777216 = bytes[4 * i + 4]
        /\ app # None => WRITE_BUFFER' = WRITE_BUFFER
      ]_vars

\* While A owned the marker and the scratch buffer held A's two words,
\* B registered a buffer of its own: the words stayed.
C14_Witness ==
    /\ app # None
    /\ last.op = "allow"
    /\ last.cmd = 0
    /\ last.len = 8
    /\ last.app # app[1]
    /\ \A i \in 0 .. 1 :
          /\ WRITE_BUFFER[i] % 256 = ByteAt(app[1], 4 * i + 1)
          /\ (WRITE_BUFFER[i] \div 256) % 256 = ByteAt(app[1], 4 * i + 2)

\* C15: a query returns 4, 2048, 2, 10000 and 128 for arguments 0 to 4 and
\* EINVAL for any other argument, whatever the marker and whoever calls;
\* command 0 returns SUCCESS and a command above 3 returns ENOSUPPORT; none
\* of them changes the marker, the scratch buffer or a client record, nor
\* issues a request or schedules a callback.
C15_QueriesAreFixedAndPure ==
    [][ (last'.op = "command" /\ last'.cmd \notin {2, 3}) =>
           /\ UNCHANGED << app, WRITE_BUFFER, grant >>
           /\ flash_calls' = << >>
           /\ scheduled' = << >>
           /\ last'.cmd = 0 => ret' = Some(SUCCESS)
           /\ last'.cmd > 3 => ret' = Some(ENOSUPPORT)
           /\ last'.cmd = 1 =>
                 ret' = Some(CASE last'.arg = 0 -> SuccessWithValue(4)
                               [] last'.arg = 1 -> SuccessWithValue(2048)
                               [] last'.arg = 2 -> SuccessWithValue(2)
                               [] last'.arg = 3 -> SuccessWithValue(10000)
                               [] last'.arg = 4 -> SuccessWithValue(128)
                               [] OTHER -> EINVAL)
      ]_vars

\* While another client's operation was pending, a client queried the
\* maximum write length and was answered 128.
C15_Witness ==
    /\ last.op = "command"
    /\ last.cmd = 1
    /\ last.arg = 4
    /\ ret = Some(SuccessWithValue(128))
    /\ app # None
    /\ last.app # app[1]

\* C16: allow and subscribe with sub-selector 0 return SUCCESS in every
\* marker state and store the passed value in that one field of the
\* caller's record; with another sub-selector they return ENOSUPPORT and
\* store nothing.  Marker, scratch buffer, the caller's other field and
\* the other clients' records stay as they are.
C16_RegistrationReplacesOneField ==
    [][ \A c \in Apps :
          /\ (last'.op = "allow" /\ last'.app = c) =>
                /\ UNCHANGED << app, WRITE_BUFFER >>
                /\ flash_calls' = << >>
                /\ scheduled' = << >>
                /\ IF last'.cmd = 0
                   THEN /\ ret' = Some(SUCCESS)
                        /\ grant' =
                              [grant EXCEPT ![c].slice =
                                 IF last'.len < 0 THEN None
                                 ELSE Some(SliceOf(c, last'.len))]
                   ELSE /\ ret' = Some(ENOSUPPORT)
                        /\ grant' = grant
          /\ (last'.op = "subscribe" /\ last'.app = c) =>
                /\ UNCHANGED << app, WRITE_BUFFER >>
                /\ flash_calls' = << >>
                /\ scheduled' = << >>
                /\ IF last'.cmd = 0
                   THEN /\ ret' = Some(SUCCESS)
                        /\ grant' =
                              [grant EXCEPT ![c].callback =
                                 IF last'.arg = 0 THEN None
                                 ELSE Some([app_id |-> c, fnptr |-> last'.arg])]
                   ELSE /\ ret' = Some(ENOSUPPORT)
                        /\ grant' = grant
      ]_vars

\* The owner of the pending operation registered a new buffer, which was
\* stored, its callback staying registered.
C16_Witness ==
    /\ last.op = "allow"
    /\ last.cmd = 0
    /\ ret = Some(SUCCESS)
    /\ app = Some(last.app)
    /\ grant[last.app].slice = Some(SliceOf(last.app, 2 * WORD_SIZE))
    /\ grant[last.app].callback # None

\* C17: a write or erase that passes validation while the marker is Idle
\* issues one request, makes its caller the owner and returns the code the
\* flash capability answered, whichever it is; the marker is left Owned in
\* the same step that issues the request.  While the marker is Owned such
\* a call returns EBUSY and issues nothing, and the marker changes only in
\* a completion.
C17_MarkerKeptOnDeviceRejection ==
    [][ /\ flash_calls' # << >> =>
              /\ app' = Some(last'.app)
              /\ ret' = Some(flash_calls'[1].code)
        /\ (PassesWriteValidation(last') \/ PassesEraseValidation(last')) =>
              IF app = None
              THEN /\ Len(flash_calls') = 1
                   /\ flash_calls'[1].code \in DeviceCodes
                   /\ app' = Some(last'.app)
              ELSE /\ ret' = Some(EBUSY)
                   /\ flash_calls' = << >>
                   /\ app' = app
        /\ (app # None /\ app' # app) => (IsDone(last') /\ app' = None)
      ]_vars

\* The flash capability refused a write at once, and the caller owns the
\* marker all the same.
C17_Witness ==
    /\ IsWrite(last)
    /\ Len(flash_calls) = 1
    /\ flash_calls[1].code = EINVAL
    /\ ret = Some(EINVAL)
    /\ app = Some(last.app)

\* C18: a completion delivered for a live owner leaves the owner's record
\* without a callback, its buffer and every other client's record as they
\* were; a callback is scheduled only in a completion and only if the
\* owner's record held one; and a record without a callback gets one only
\* by a subscribe of that client.
C18_CompletionConsumesCallback ==
    [][ \A c \in Apps :
          /\ (IsDone(last') /\ app = Some(c) /\ panic' = NoPanic) =>
                /\ grant'[c].callback = None
                /\ grant'[c].slice = grant[c].slice
                /\ \A b \in Apps \ {c} : grant'[b] = grant[b]
                /\ (scheduled' # << >>) <=> (grant[c].callback # None)
          /\ (IsDone(last') /\ panic' # NoPanic) =>
                (grant' = grant /\ scheduled' = << >>)
          /\ scheduled' # << >> => (IsDone(last') /\ app # None)
          /\ (grant[c].callback = None /\ grant'[c].callback # None) =>
                (last'.op = "subscribe" /\ last'.app = c /\ last'.cmd = 0)
      ]_vars

\* A completion scheduled the owner's callback and left the owner without
\* one, while another client's callback stayed registered.
C18_Witness ==
    /\ IsDone(last)
    /\ Len(scheduled) = 1
    /\ grant[scheduled[1].callback.app_id].callback = None
    /\ \E b \in Apps \ {scheduled[1].callback.app_id} :
          grant[b].callback = Some([app_id |-> b, fnptr |-> 1])

\* C19: what a completion schedules is determined by the owner's record as
\* it is when the completion is delivered; and a subscribe by the owner
\* while its operation is pending succeeds and stores its argument, the
\* empty callback included, so that is what the completion finds.
C19_CallbackReadAtCompletion ==
    [][ /\ (IsDone(last') /\ app # None /\ panic' = NoPanic) =>
              scheduled' =
                 IF grant[app[1]].callback = None
                 THEN << >>
                 ELSE << [callback |-> grant[app[1]].callback[1],
                          r0 |-> IF last'.status = "SUCCESS" THEN 0 ELSE -1,
                          r1 |-> 0, r2 |-> 0] >>
        /\ ( /\ last'.op = "subscribe"
             /\ last'.cmd = 0
             /\ app = Some(last'.app) ) =>
              /\ ret' = Some(SUCCESS)
              /\ app' = app
              /\ grant'[last'.app].callback =
                    IF last'.arg = 0 THEN None
                    ELSE Some([app_id |-> last'.app, fnptr |-> last'.arg])
      ]_vars

\* The owner registered a callback while its operation was pending, and
\* its record holds it for the completion to find.
C19_Witness ==
    /\ last.op = "subscribe"
    /\ last.cmd = 0
    /\ last.arg # 0
    /\ app = Some(last.app)
    /\ grant[last.app].callback = Some([app_id |-> last.app, fnptr |-> last.arg])
    /\ ret = Some(SUCCESS)

\* C20: a write with a registered buffer of length 0 at a word-aligned
\* offset while the marker is Idle makes the caller the owner, issues one
\* write of no words at offset / 4, leaves the scratch buffer as it was and
\* returns the code the flash capability answered; and an issued write of
\* n words leaves the scratch words from index n on as they were.
C20_EmptyWriteIsIssued ==
    [][ /\ ( /\ IsWrite(last')
             /\ last'.len = 0
             /\ last'.arg % 4 = 0
             /\ app = None ) =>
              /\ app' = Some(last'.app)
              /\ Len(flash_calls') = 1
              /\ flash_calls'[1].op = "write"
              /\ flash_calls'[1].target * 4 = last'.arg
              /\ flash_calls'[1].data = << >>
              /\ flash_calls'[1].code \in DeviceCodes
              /\ ret' = Some(flash_calls'[1].code)
              /\ WRITE_BUFFER' = WRITE_BUFFER
        /\ (IsWrite(last') /\ flash_calls' # << >>) =>
              /\ Len(flash_calls'[1].data) * 4 = last'.len
              /\ \A i \in BufferIndices :
                    i >= Len(flash_calls'[1].data) =>
                       WRITE_BUFFER'[i] = WRITE_BUFFER[i]
      ]_vars

\* A write of no words was issued while the scratch buffer still held the
\* words of an earlier write.
C20_Witness ==
    /\ IsWrite(last)
    /\ last.len = 0
    /\ Len(flash_calls) = 1
    /\ flash_calls[1].data = << >>
    /\ app = Some(last.app)
    /\ WRITE_BUFFER[0] # 0
    /\ WRITE_BUFFER[1] # 0

====
